---- MODULE Spec2Model ----
(***************************************************************************)
(* Model of the interview session engine of src/interview.py: the          *)
(* AIInterviewAgent session state, its question sequencing, the difficulty *)
(* mapping and the parser of the structured feedback.  Texts whose         *)
(* characters matter to the code (str.lower, "in", startswith, re.search,  *)
(* split, strip) are sequences of one-character strings.                   *)
(***************************************************************************)
EXTENDS Integers, Sequences, FiniteSets, TLC

VARIABLES interview_state, interview_data, calls, last_op, ret, raised,
          backend_failed, prompts,
          feedback, evaluation, pf_raised, pf_done,
          agent_owner, heygen_session_id, heygen_session_token, request, http_status,
          in_progress,
          pc, local,
          main

vars == <<interview_state, interview_data, calls, last_op, ret, raised,
          backend_failed, prompts,
          feedback, evaluation, pf_raised, pf_done,
          agent_owner, heygen_session_id, heygen_session_token, request, http_status,
          in_progress,
          pc, local,
          main>>

sessionVars == <<interview_state, interview_data, calls, last_op, ret, raised,
                 backend_failed, prompts>>

parseVars == <<feedback, evaluation, pf_raised, pf_done>>

\* the globals of the HTTP layer, the last request and the status of its response
apiVars == <<agent_owner, heygen_session_id, heygen_session_token, request, http_status,
             in_progress>>

\* the requests in flight when several are served at once
threadVars == <<pc, local>>

\* the position and the locals of the __main__ program
loopVars == <<main>>

\* ------------------------------------------------------------------------
\* Bounds of the model
\* ------------------------------------------------------------------------
\* longest backend response, in lines, given to _parse_feedback
MaxLines == 4

\* ------------------------------------------------------------------------
\* Python string operations used by the code
\* ------------------------------------------------------------------------
WHITESPACE == {" ", "\t", "\n", "\r"}

DIGITS == <<"0", "1", "2", "3", "4", "5", "6", "7", "8", "9">>

UPPERCASE == <<"A", "B", "C", "D", "E", "F", "G", "H", "I", "J", "K", "L", "M",
               "N", "O", "P", "Q", "R", "S", "T", "U", "V", "W", "X", "Y", "Z">>

LOWERCASE == <<"a", "b", "c", "d", "e", "f", "g", "h", "i", "j", "k", "l", "m",
               "n", "o", "p", "q", "r", "s", "t", "u", "v", "w", "x", "y", "z">>

NEWLINE == "\n"

COLON == ":"

IsDigit(c) == c \in {DIGITS[i] : i \in 1..10}

DigitValue(c) == (CHOOSE i \in 1..10 : DIGITS[i] = c) - 1

LowerChar(c) ==
    IF \E i \in 1..26 : UPPERCASE[i] = c
    THEN LOWERCASE[CHOOSE i \in 1..26 : UPPERCASE[i] = c]
    ELSE c

\* str.lower()
Lower(s) == [i \in 1..Len(s) |-> LowerChar(s[i])]

\* str.startswith(p)
StartsWith(s, p) == Len(s) >= Len(p) /\ SubSeq(s, 1, Len(p)) = p

\* sub in s
Contains(s, sub) ==
    \E i \in 0..(Len(s) - Len(sub)) : SubSeq(s, i + 1, i + Len(sub)) = sub

RECURSIVE FirstNonSpace(_, _)
\* index of the first character of s at or after i that is not whitespace
FirstNonSpace(s, i) ==
    IF i > Len(s) THEN i
    ELSE IF s[i] \in WHITESPACE THEN FirstNonSpace(s, i + 1) ELSE i

RECURSIVE LastNonSpace(_, _)
\* index of the last character of s at or before i that is not whitespace
LastNonSpace(s, i) ==
    IF i < 1 THEN i
    ELSE IF s[i] \in WHITESPACE THEN LastNonSpace(s, i - 1) ELSE i

\* str.strip(): drops the leading and trailing whitespace of the whole text
Strip(s) == SubSeq(s, FirstNonSpace(s, 1), LastNonSpace(s, Len(s)))

RECURSIVE IndexFrom(_, _, _)
\* index of the first occurrence of character c in s at or after i, 0 for none
IndexFrom(s, c, i) ==
    IF i > Len(s) THEN 0
    ELSE IF s[i] = c THEN i ELSE IndexFrom(s, c, i + 1)

FirstIndex(s, c) == IndexFrom(s, c, 1)

RECURSIVE Split(_, _)
\* str.split(sep) for a one-character separator; "" splits into ['']
Split(s, sep) ==
    LET k == FirstIndex(s, sep)
    IN  IF k = 0 THEN <<s>>
        ELSE <<SubSeq(s, 1, k - 1)>> \o Split(SubSeq(s, k + 1, Len(s)), sep)

\* line.split(':', 1)[1] of a line that holds a colon
AfterFirstColon(line) == SubSeq(line, FirstIndex(line, COLON) + 1, Len(line))

RECURSIVE FirstDigit(_, _)
\* index of the first digit of line at or after i, 0 for none
FirstDigit(line, i) ==
    IF i > Len(line) THEN 0
    ELSE IF IsDigit(line[i]) THEN i ELSE FirstDigit(line, i + 1)

RECURSIVE DigitRunEnd(_, _)
\* index of the last digit of the run of digits that holds index i
DigitRunEnd(line, i) ==
    IF i < Len(line) /\ IsDigit(line[i + 1]) THEN DigitRunEnd(line, i + 1) ELSE i

\* re.search(r'\d+', line): the first maximal run of digits, <<>> for no match
SearchDigits(line) ==
    LET first == FirstDigit(line, 1)
    IN  IF first = 0 THEN <<>> ELSE SubSeq(line, first, DigitRunEnd(line, first))

RECURSIVE ToInt(_)
\* int(digits)
ToInt(ds) ==
    IF ds = <<>> THEN 0
    ELSE 10 * ToInt(SubSeq(ds, 1, Len(ds) - 1)) + DigitValue(ds[Len(ds)])

RECURSIVE Join(_, _)
\* sep.join(lines)
Join(lines, sep) ==
    IF lines = <<>> THEN <<>>
    ELSE IF Len(lines) = 1 THEN lines[1]
    ELSE lines[1] \o <<sep>> \o Join(Tail(lines), sep)

\* ------------------------------------------------------------------------
\* Texts
\* ------------------------------------------------------------------------
\* 'SCORE:'
PREFIX_SCORE == <<"S", "C", "O", "R", "E", ":">>

\* 'STRENGTHS:'
PREFIX_STRENGTHS == <<"S", "T", "R", "E", "N", "G", "T", "H", "S", ":">>

\* 'IMPROVEMENTS:'
PREFIX_IMPROVEMENTS == <<"I", "M", "P", "R", "O", "V", "E", "M", "E", "N", "T", "S", ":">>

\* 'N/A'
NOT_AVAILABLE == <<"N", "/", "A">>

\* 'Sorry, I encountered an error.'
API_ERROR_TEXT == <<"S", "o", "r", "r", "y", ",", " ", "I", " ", "e", "n", "c", "o", "u", "n", "t", "e", "r", "e", "d", " ", "a", "n", " ", "e", "r", "r", "o", "r", ".">>

\* 'SCORE: 7'
LINE_SCORE_7 == <<"S", "C", "O", "R", "E", ":", " ", "7">>

\* 'STRENGTHS: Clear'
LINE_STRENGTHS == <<"S", "T", "R", "E", "N", "G", "T", "H", "S", ":", " ", "C", "l", "e", "a", "r">>

\* 'IMPROVEMENTS: Depth'
LINE_IMPROVEMENTS == <<"I", "M", "P", "R", "O", "V", "E", "M", "E", "N", "T", "S", ":", " ", "D", "e", "p", "t", "h">>

\* 'SCORE: high'
LINE_SCORE_NODIGIT == <<"S", "C", "O", "R", "E", ":", " ", "h", "i", "g", "h">>

\* 'SCORE: 15'
LINE_SCORE_15 == <<"S", "C", "O", "R", "E", ":", " ", "1", "5">>

\* ' SCORE: 9'
LINE_SCORE_INDENTED == <<" ", "S", "C", "O", "R", "E", ":", " ", "9">>

\* ''
LINE_BLANK == <<>>

\* 'Clear'
TEXT_CLEAR == <<"C", "l", "e", "a", "r">>

\* 'Depth'
TEXT_DEPTH == <<"D", "e", "p", "t", "h">>

\* ------------------------------------------------------------------------
\* _parse_feedback
\* ------------------------------------------------------------------------
DefaultEvaluation == [score |-> 0, strengths |-> NOT_AVAILABLE, improvements |-> NOT_AVAILABLE]

\* One iteration of the loop over the lines.  failed: the body raised
\* (re.search found no digits, so .group() is called on None).
ParseLine_positional(ev, line) ==
    IF StartsWith(line, PREFIX_SCORE)
    THEN IF SearchDigits(line) = <<>>
         THEN [evaluation |-> ev, failed |-> TRUE]
         ELSE [evaluation |-> [ev EXCEPT !.score = ToInt(SearchDigits(line))], failed |-> FALSE]
    ELSE IF StartsWith(line, PREFIX_STRENGTHS) /\ ev.score # 0
    THEN [evaluation |-> [ev EXCEPT !.strengths = Strip(AfterFirstColon(line))], failed |-> FALSE]
    ELSE IF StartsWith(line, PREFIX_IMPROVEMENTS) /\ ev.strengths # NOT_AVAILABLE
    THEN [evaluation |-> [ev EXCEPT !.improvements = Strip(AfterFirstColon(line))], failed |-> FALSE]
    ELSE [evaluation |-> ev, failed |-> FALSE]

ParseLine(ev, line) ==
    IF StartsWith(line, PREFIX_SCORE)
    THEN IF SearchDigits(line) = <<>>
         THEN [evaluation |-> ev, failed |-> TRUE]
         ELSE [evaluation |-> [ev EXCEPT !.score = ToInt(SearchDigits(line))], failed |-> FALSE]
    ELSE IF StartsWith(line, PREFIX_STRENGTHS)
    THEN [evaluation |-> [ev EXCEPT !.strengths = Strip(AfterFirstColon(line))], failed |-> FALSE]
    ELSE IF StartsWith(line, PREFIX_IMPROVEMENTS)
    THEN [evaluation |-> [ev EXCEPT !.improvements = Strip(AfterFirstColon(line))], failed |-> FALSE]
    ELSE [evaluation |-> ev, failed |-> FALSE]

RECURSIVE ParseLines(_, _, _)
\* The for loop inside the try block: it stops at the first line that raises,
\* with the fields assigned so far.
ParseLines(lines, i, ev) ==
    IF i > Len(lines) THEN [evaluation |-> ev, failed |-> FALSE]
    ELSE LET r == ParseLine(ev, lines[i])
         IN  IF r.failed THEN r ELSE ParseLines(lines, i + 1, r.evaluation)

ParseFeedback_noexcept(text) ==
    LET r == ParseLines(Split(Strip(text), NEWLINE), 1, DefaultEvaluation)
    IN  [evaluation |-> r.evaluation, raised |-> r.failed]

\* _parse_feedback: the except clause returns the partial evaluation
ParseFeedback(text) ==
    LET r == ParseLines(Split(Strip(text), NEWLINE), 1, DefaultEvaluation)
    IN  [evaluation |-> r.evaluation, raised |-> FALSE]

\* ------------------------------------------------------------------------
\* Backend responses given to _parse_feedback
\* ------------------------------------------------------------------------
FeedbackLines ==
    {LINE_SCORE_7, LINE_STRENGTHS, LINE_IMPROVEMENTS, LINE_BLANK,
     LINE_SCORE_NODIGIT, LINE_SCORE_15, LINE_SCORE_INDENTED, API_ERROR_TEXT}

RECURSIVE LineSeqs(_)
LineSeqs(n) ==
    IF n = 0 THEN {<<>>}
    ELSE LET shorter == LineSeqs(n - 1)
         IN  shorter \cup {Append(ls, l) : ls \in {x \in shorter : Len(x) = n - 1}, l \in FeedbackLines}

FeedbackTexts == {Join(ls, NEWLINE) : ls \in LineSeqs(MaxLines)}

\* ------------------------------------------------------------------------
\* Session texts
\* ------------------------------------------------------------------------
\* 'fresher'
KW_FRESHER == <<"f", "r", "e", "s", "h", "e", "r">>

\* 'junior'
KW_JUNIOR == <<"j", "u", "n", "i", "o", "r">>

\* 'mid-level'
KW_MID_LEVEL == <<"m", "i", "d", "-", "l", "e", "v", "e", "l">>

\* 'senior'
KW_SENIOR == <<"s", "e", "n", "i", "o", "r">>

\* 'Easy'
DIFF_EASY == <<"E", "a", "s", "y">>

\* 'Easy-to-Medium'
DIFF_EASY_MEDIUM == <<"E", "a", "s", "y", "-", "t", "o", "-", "M", "e", "d", "i", "u", "m">>

\* 'Medium'
DIFF_MEDIUM == <<"M", "e", "d", "i", "u", "m">>

\* 'Hard'
DIFF_HARD == <<"H", "a", "r", "d">>

\* 'Expert / Architectural'
DIFF_EXPERT == <<"E", "x", "p", "e", "r", "t", " ", "/", " ", "A", "r", "c", "h", "i", "t", "e", "c", "t", "u", "r", "a", "l">>

\* 'medium'
DIFF_INITIAL == <<"m", "e", "d", "i", "u", "m">>

\* 'Fresher (0-1 year)'
EXP_FRESHER == <<"F", "r", "e", "s", "h", "e", "r", " ", "(", "0", "-", "1", " ", "y", "e", "a", "r", ")">>

\* 'Junior (1-3 years)'
EXP_JUNIOR == <<"J", "u", "n", "i", "o", "r", " ", "(", "1", "-", "3", " ", "y", "e", "a", "r", "s", ")">>

\* 'Mid-Level (3-5 years)'
EXP_MID_LEVEL == <<"M", "i", "d", "-", "L", "e", "v", "e", "l", " ", "(", "3", "-", "5", " ", "y", "e", "a", "r", "s", ")">>

\* 'Senior (5-8 years)'
EXP_SENIOR == <<"S", "e", "n", "i", "o", "r", " ", "(", "5", "-", "8", " ", "y", "e", "a", "r", "s", ")">>

\* 'Lead/Principal (8+ years)'
EXP_LEAD == <<"L", "e", "a", "d", "/", "P", "r", "i", "n", "c", "i", "p", "a", "l", " ", "(", "8", "+", " ", "y", "e", "a", "r", "s", ")">>

\* 'Frontend Developer'
JOB_ROLE == <<"F", "r", "o", "n", "t", "e", "n", "d", " ", "D", "e", "v", "e", "l", "o", "p", "e", "r">>

\* "Great, let's start. To begin, could you please tell me a bit about yourself and your journey as a "
INTRO_QUESTION_HEAD ==
    <<"G", "r", "e", "a", "t", ",", " ", "l", "e", "t", "'", "s", " ", "s", "t", "a", "r", "t", ".", " ", "T", "o", " ", "b", "e", "g", "i", "n", ",", " ", "c", "o", "u", "l", "d", " ", "y", "o", "u", " ", "p", "l", "e", "a", "s", "e", " ", "t", "e", "l", "l", " ", "m", "e", " ", "a", " ", "b", "i", "t", " ", "a", "b", "o", "u", "t", " ", "y", "o", "u", "r", "s", "e", "l", "f", " ", "a", "n", "d", " ", "y", "o", "u", "r", " ", "j", "o", "u", "r", "n", "e", "y", " ", "a", "s", " ", "a", " ">>

\* '?'
QUESTION_MARK == <<"?">>

\* 'Interview is complete.'
INTERVIEW_COMPLETE == <<"I", "n", "t", "e", "r", "v", "i", "e", "w", " ", "i", "s", " ", "c", "o", "m", "p", "l", "e", "t", "e", ".">>

\* ' What is JSX?\n'
TEXT_QUESTION == <<" ", "W", "h", "a", "t", " ", "i", "s", " ", "J", "S", "X", "?", "\n">>

\* 'SCORE: 7\nSTRENGTHS: Clear\nIMPROVEMENTS: Depth'
TEXT_FEEDBACK ==
    <<"S", "C", "O", "R", "E", ":", " ", "7", "\n", "S", "T", "R", "E", "N", "G", "T", "H", "S", ":", " ", "C", "l", "e", "a", "r", "\n", "I", "M", "P", "R", "O", "V", "E", "M", "E", "N", "T", "S", ":", " ", "D", "e", "p", "t", "h">>

\* 'A syntax extension.'
ANSWER_TEXT == <<"A", " ", "s", "y", "n", "t", "a", "x", " ", "e", "x", "t", "e", "n", "s", "i", "o", "n", ".">>

\* the Python None object
None == "None"

\* the value of a call that did not return (an exception left it)
NoReturn == [nothing |-> TRUE]

\* interview_data has no 'overall_rating' key
NoRating == [absent |-> TRUE]

\* a datetime.now() value
Now == "now"

\* ------------------------------------------------------------------------
\* More bounds
\* ------------------------------------------------------------------------
\* calls of generate_next_question followed in one behaviour
MaxCalls == 7

\* turns recorded in one behaviour
MaxTurns == 1

\* ------------------------------------------------------------------------
\* The text-generation backend and _call_gemini_api
\* ------------------------------------------------------------------------
BackendTexts == {TEXT_QUESTION, TEXT_FEEDBACK, LINE_SCORE_15}

\* what model.generate_content does on one call: raise, or answer some text
BackendOutcomes ==
    {[fails |-> TRUE, text |-> <<>>]} \cup {[fails |-> FALSE, text |-> t] : t \in BackendTexts}

CallGeminiApi_propagates(b) ==
    IF b.fails THEN [text |-> <<>>, raised |-> TRUE]
    ELSE [text |-> Strip(b.text), raised |-> FALSE]

\* _call_gemini_api: response.text.strip(), or the apology when the call raises
CallGeminiApi(b) ==
    IF b.fails THEN [text |-> API_ERROR_TEXT, raised |-> FALSE]
    ELSE [text |-> Strip(b.text), raised |-> FALSE]

\* ------------------------------------------------------------------------
\* AIInterviewAgent state
\* ------------------------------------------------------------------------
InitialInterviewState ==
    [current_phase |-> "introduction", question_count |-> 0, max_questions |-> 5,
     job_role |-> JOB_ROLE, candidate_name |-> None, skills_to_assess |-> <<>>,
     difficulty_level |-> DIFF_INITIAL, experience_text |-> <<>>]

InitialInterviewData ==
    [start_time |-> None, questions_asked |-> <<>>, answers_received |-> <<>>,
     scores |-> <<>>, overall_rating |-> NoRating]

\* candidate profiles as onboard_candidate builds them
Profiles ==
    {[name |-> "Asha", experience |-> EXP_SENIOR, skills |-> <<"React.js", "Redux">>],
     [name |-> "Candidate", experience |-> EXP_LEAD, skills |-> <<"HTML">>]}

DifficultyLevel_casesensitive(experience) ==
    LET exp_lower == experience
    IN  IF Contains(exp_lower, KW_FRESHER) THEN DIFF_EASY
        ELSE IF Contains(exp_lower, KW_JUNIOR) THEN DIFF_EASY_MEDIUM
        ELSE IF Contains(exp_lower, KW_MID_LEVEL) THEN DIFF_MEDIUM
        ELSE IF Contains(exp_lower, KW_SENIOR) THEN DIFF_HARD
        ELSE DIFF_EXPERT

\* the if/elif chain of initialize_adaptive_interview
DifficultyLevel(experience) ==
    LET exp_lower == Lower(experience)
    IN  IF Contains(exp_lower, KW_FRESHER) THEN DIFF_EASY
        ELSE IF Contains(exp_lower, KW_JUNIOR) THEN DIFF_EASY_MEDIUM
        ELSE IF Contains(exp_lower, KW_MID_LEVEL) THEN DIFF_MEDIUM
        ELSE IF Contains(exp_lower, KW_SENIOR) THEN DIFF_HARD
        ELSE DIFF_EXPERT

IsComplete_offbyone(st) == st.question_count > st.max_questions

\* the guard of generate_next_question
IsComplete(st) == st.question_count >= st.max_questions

QuestionType_late(question_count) ==
    IF question_count = 0 THEN "introduction"
    ELSE IF question_count = 4 THEN "behavioral"
    ELSE "technical"

\* the type of the question asked at a position
QuestionType(question_count) ==
    IF question_count = 0 THEN "introduction"
    ELSE IF question_count = 3 THEN "behavioral"
    ELSE "technical"

\* the fixed opening question
IntroQuestion(st) == INTRO_QUESTION_HEAD \o st.job_role \o QUESTION_MARK

ConclusionMarker == [type |-> "conclusion", message |-> INTERVIEW_COMPLETE]

\* sum(scores) / len(scores) if scores else 0, as a reduced fraction
RECURSIVE SumScores(_)
SumScores(scores) == IF scores = <<>> THEN 0 ELSE Head(scores) + SumScores(Tail(scores))

RECURSIVE Gcd(_, _)
Gcd(a, b) == IF b = 0 THEN a ELSE Gcd(b, a % b)

Mean_floor(scores) ==
    IF scores = <<>> THEN [num |-> 0, den |-> 1]
    ELSE [num |-> SumScores(scores) \div Len(scores), den |-> 1]

Mean(scores) ==
    IF scores = <<>> THEN [num |-> 0, den |-> 1]
    ELSE LET s == SumScores(scores)
             n == Len(scores)
             g == Gcd(n, s)
         IN  [num |-> s \div g, den |-> n \div g]

\* ------------------------------------------------------------------------
\* Operations of the session
\* ------------------------------------------------------------------------
\* no request served yet: the globals of interview_api.py are None
NoRequest == [endpoint |-> "none"]

ServerIdle ==
    /\ agent_owner = 0
    /\ heygen_session_id = 0
    /\ heygen_session_token = 0
    /\ request = NoRequest
    /\ http_status = 0
    /\ in_progress = {}

\* the worker threads of the server
Threads == {1, 2}

IdleThread == [question_type |-> "none", question |-> <<>>, question_count |-> 0]

ThreadsIdle ==
    /\ pc = [t \in Threads |-> "idle"]
    /\ local = [t \in Threads |-> IdleThread]

\* the __main__ program is not running
MainNotRunning == main = [stage |-> "none"]

Init ==
    /\ interview_state = InitialInterviewState
    /\ interview_data = InitialInterviewData
    /\ calls = 0
    /\ last_op = "__init__"
    /\ ret = NoReturn
    /\ raised = FALSE
    /\ backend_failed = FALSE
    /\ prompts = <<>>
    /\ feedback = <<>>
    /\ evaluation = DefaultEvaluation
    /\ pf_raised = FALSE
    /\ pf_done = FALSE
    /\ ServerIdle
    /\ ThreadsIdle
    /\ MainNotRunning

InitializeState_resize(st, candidate_profile) ==
    IF "name" \notin DOMAIN candidate_profile
    THEN [state |-> st, raised |-> TRUE]
    ELSE IF "skills" \notin DOMAIN candidate_profile
    THEN [state |-> [st EXCEPT !.candidate_name = candidate_profile.name],
          raised |-> TRUE]
    ELSE IF "experience" \notin DOMAIN candidate_profile
    THEN [state |-> [st EXCEPT !.candidate_name = candidate_profile.name,
                               !.skills_to_assess = candidate_profile.skills],
          raised |-> TRUE]
    ELSE [state |-> [st EXCEPT
                        !.candidate_name = candidate_profile.name,
                        !.skills_to_assess = candidate_profile.skills,
                        !.experience_text = candidate_profile.experience,
                        !.difficulty_level = DifficultyLevel(candidate_profile.experience),
                        !.max_questions = 5 + Len(candidate_profile.skills)],
          raised |-> FALSE]

\* lines 147-157 of initialize_adaptive_interview: the profile is read key by
\* key, and a missing key raises KeyError after the assignments before it
InitializeState(st, candidate_profile) ==
    IF "name" \notin DOMAIN candidate_profile
    THEN [state |-> st, raised |-> TRUE]
    ELSE IF "skills" \notin DOMAIN candidate_profile
    THEN [state |-> [st EXCEPT !.candidate_name = candidate_profile.name],
          raised |-> TRUE]
    ELSE IF "experience" \notin DOMAIN candidate_profile
    THEN [state |-> [st EXCEPT !.candidate_name = candidate_profile.name,
                               !.skills_to_assess = candidate_profile.skills],
          raised |-> TRUE]
    ELSE [state |-> [st EXCEPT
                        !.candidate_name = candidate_profile.name,
                        !.skills_to_assess = candidate_profile.skills,
                        !.experience_text = candidate_profile.experience,
                        !.difficulty_level = DifficultyLevel(candidate_profile.experience)],
          raised |-> FALSE]

\* initialize_adaptive_interview(candidate_profile), the introduction text
\* coming from the backend outcome b
Initialize(candidate_profile, b) ==
    LET i == InitializeState(interview_state, candidate_profile)
        r == CallGeminiApi(b)
    IN  /\ interview_state' = i.state
        /\ last_op' = "initialize_adaptive_interview"
        /\ IF i.raised
           THEN /\ ret' = NoReturn
                /\ raised' = TRUE
                /\ backend_failed' = FALSE
                /\ prompts' = <<>>
                /\ UNCHANGED interview_data
           ELSE /\ interview_data' = [interview_data EXCEPT !.start_time = Now]
                /\ ret' = IF r.raised THEN NoReturn ELSE [text |-> r.text]
                /\ raised' = r.raised
                /\ backend_failed' = b.fails
                /\ prompts' = <<"introduction">>
        /\ UNCHANGED <<calls, parseVars, apiVars, threadVars, loopVars>>

GenerateComplete_phase ==
    /\ interview_state' = [interview_state EXCEPT !.current_phase = "conclusion"]
    /\ ret' = ConclusionMarker
    /\ raised' = FALSE
    /\ backend_failed' = FALSE
    /\ prompts' = <<>>

\* generate_next_question once question_count has reached max_questions
GenerateComplete ==
    /\ interview_state' = interview_state
    /\ ret' = ConclusionMarker
    /\ raised' = FALSE
    /\ backend_failed' = FALSE
    /\ prompts' = <<>>

GenerateAsk_skipfirst(b) ==
    LET question_type == QuestionType(interview_state.question_count)
        r == IF question_type = "introduction"
             THEN [text |-> IntroQuestion(interview_state), raised |-> FALSE]
             ELSE CallGeminiApi(b)
    IN  /\ backend_failed' = (question_type # "introduction" /\ b.fails)
        /\ prompts' = IF question_type = "introduction" THEN <<>> ELSE <<question_type>>
        /\ IF r.raised
           THEN /\ interview_state' = interview_state
                /\ ret' = NoReturn
                /\ raised' = TRUE
           ELSE /\ interview_state' =
                       [interview_state EXCEPT !.question_count =
                           IF question_type = "introduction" THEN @ ELSE @ + 1]
                /\ ret' = [question |-> r.text, type |-> question_type,
                           question_number |-> interview_state'.question_count,
                           total_questions |-> interview_state.max_questions]
                /\ raised' = FALSE

\* generate_next_question while questions remain: the opening question is a
\* fixed text, the others come from the backend outcome b
GenerateAsk(b) ==
    LET question_type == QuestionType(interview_state.question_count)
        r == IF question_type = "introduction"
             THEN [text |-> IntroQuestion(interview_state), raised |-> FALSE]
             ELSE CallGeminiApi(b)
    IN  /\ backend_failed' = (question_type # "introduction" /\ b.fails)
        /\ prompts' = IF question_type = "introduction" THEN <<>> ELSE <<question_type>>
        /\ IF r.raised
           THEN /\ interview_state' = interview_state
                /\ ret' = NoReturn
                /\ raised' = TRUE
           ELSE /\ interview_state' =
                       [interview_state EXCEPT !.question_count = @ + 1]
                /\ ret' = [question |-> r.text, type |-> question_type,
                           question_number |-> interview_state'.question_count,
                           total_questions |-> interview_state.max_questions]
                /\ raised' = FALSE

\* generate_next_question()
GenerateNextQuestion(b) ==
    /\ calls < MaxCalls
    /\ calls' = calls + 1
    /\ last_op' = "generate_next_question"
    /\ IF IsComplete(interview_state) THEN GenerateComplete ELSE GenerateAsk(b)
    /\ UNCHANGED <<interview_data, parseVars, apiVars, threadVars, loopVars>>

\* evaluate_answer(question, answer): the prompt goes to the backend and the
\* response to _parse_feedback
EvaluateAnswerResult(b) ==
    LET r == CallGeminiApi(b)
    IN  IF r.raised THEN [evaluation |-> DefaultEvaluation, raised |-> TRUE]
        ELSE ParseFeedback(r.text)

EvaluateAnswer_appends(question, answer, b) ==
    LET e == EvaluateAnswerResult(b)
    IN  /\ last_op' = "evaluate_answer"
        /\ ret' = IF e.raised THEN NoReturn ELSE e.evaluation
        /\ raised' = e.raised
        /\ backend_failed' = b.fails
        /\ prompts' = <<"evaluation">>
        /\ interview_data' =
               [interview_data EXCEPT !.answers_received =
                   Append(@, [question |-> question, answer |-> answer,
                              timestamp |-> Now, evaluation |-> e.evaluation])]
        /\ UNCHANGED <<interview_state, calls, parseVars, apiVars, threadVars, loopVars>>

\* evaluate_answer(question, answer)
EvaluateAnswer(question, answer, b) ==
    LET e == EvaluateAnswerResult(b)
    IN  /\ last_op' = "evaluate_answer"
        /\ ret' = IF e.raised THEN NoReturn ELSE e.evaluation
        /\ raised' = e.raised
        /\ backend_failed' = b.fails
        /\ prompts' = <<"evaluation">>
        /\ UNCHANGED <<interview_state, interview_data, calls, parseVars, apiVars, threadVars, loopVars>>

\* the caller's record of a turn: append the answer, evaluate it, attach the
\* evaluation to the appended entry
RecordTurn(question, answer, b) ==
    LET e == EvaluateAnswerResult(b)
        entry == [question |-> question, answer |-> answer, timestamp |-> Now]
    IN  /\ Len(interview_data.answers_received) < MaxTurns
        /\ interview_data' =
               [interview_data EXCEPT !.answers_received =
                   Append(@, IF e.raised THEN entry
                             ELSE [question |-> question, answer |-> answer,
                                   timestamp |-> Now, evaluation |-> e.evaluation])]
        /\ last_op' = "record_turn"
        /\ ret' = IF e.raised THEN NoReturn ELSE e.evaluation
        /\ raised' = e.raised
        /\ backend_failed' = b.fails
        /\ prompts' = <<"evaluation">>
        /\ UNCHANGED <<interview_state, calls, parseVars, apiVars, threadVars, loopVars>>

\* [ans['evaluation']['score'] for ans in answers_received if 'evaluation' in ans]
RECURSIVE EvaluationScores(_)
EvaluationScores(answers) ==
    IF answers = <<>> THEN <<>>
    ELSE (IF "evaluation" \in DOMAIN Head(answers)
          THEN <<Head(answers).evaluation.score>> ELSE <<>>)
         \o EvaluationScores(Tail(answers))

\* 'tell me about yourself'
TELL_ME_PHRASE == <<"t", "e", "l", "l", " ", "m", "e", " ", "a", "b", "o", "u", "t", " ", "y", "o", "u", "r", "s", "e", "l", "f">>

\* 'Tell me about yourself.'
QUESTION_TELL_ME == <<"T", "e", "l", "l", " ", "m", "e", " ", "a", "b", "o", "u", "t", " ", "y", "o", "u", "r", "s", "e", "l", "f", ".">>

\* 'There is nothing to report.'
NOTHING_TO_REPORT == <<"T", "h", "e", "r", "e", " ", "i", "s", " ", "n", "o", "t", "h", "i", "n", "g", " ", "t", "o", " ", "r", "e", "p", "o", "r", "t", ".">>

GenerateConclusion_filtered(b) ==
    LET overall_score == Mean(EvaluationScores(interview_data.answers_received))
        log == SelectSeq(interview_data.answers_received,
                         LAMBDA ans : ~Contains(Lower(ans.question), TELL_ME_PHRASE))
        r == CallGeminiApi(b)
    IN  /\ interview_data' = [interview_data EXCEPT !.overall_rating = overall_score]
        /\ last_op' = "_generate_conclusion"
        /\ ret' = [type |-> "conclusion",
                   message |-> IF log = <<>> THEN NOTHING_TO_REPORT ELSE r.text,
                   overall_score |-> overall_score]
        /\ raised' = FALSE
        /\ backend_failed' = (log # <<>> /\ b.fails)
        /\ prompts' = IF log = <<>> THEN <<>> ELSE <<"conclusion">>
        /\ UNCHANGED <<interview_state, calls, parseVars, apiVars, threadVars, loopVars>>

\* _generate_conclusion()
GenerateConclusion(b) ==
    LET overall_score == Mean(EvaluationScores(interview_data.answers_received))
        r == CallGeminiApi(b)
    IN  /\ interview_data' = [interview_data EXCEPT !.overall_rating = overall_score]
        /\ last_op' = "_generate_conclusion"
        /\ ret' = IF r.raised THEN NoReturn
                  ELSE [type |-> "conclusion", message |-> r.text,
                        overall_score |-> overall_score]
        /\ raised' = r.raised
        /\ backend_failed' = b.fails
        /\ prompts' = <<"conclusion">>
        /\ UNCHANGED <<interview_state, calls, parseVars, apiVars, threadVars, loopVars>>

\* the phrases random.choice picks from for a high score
\* "Excellent, that's a great explanation.", "Very good, that's exactly what I
\* was looking for.", "Perfect, you've hit all the key points."
PraisePhrases ==
    {<<"E", "x", "c", "e", "l", "l", "e", "n", "t", ",", " ", "t", "h", "a", "t", "'", "s", " ", "a", " ", "g", "r", "e", "a", "t", " ", "e", "x", "p", "l", "a", "n", "a", "t", "i", "o", "n", ".">>,
     <<"V", "e", "r", "y", " ", "g", "o", "o", "d", ",", " ", "t", "h", "a", "t", "'", "s", " ", "e", "x", "a", "c", "t", "l", "y", " ", "w", "h", "a", "t", " ", "I", " ", "w", "a", "s", " ", "l", "o", "o", "k", "i", "n", "g", " ", "f", "o", "r", ".">>,
     <<"P", "e", "r", "f", "e", "c", "t", ",", " ", "y", "o", "u", "'", "v", "e", " ", "h", "i", "t", " ", "a", "l", "l", " ", "t", "h", "e", " ", "k", "e", "y", " ", "p", "o", "i", "n", "t", "s", ".">>}

\* "Thanks for sharing that background. Now, let's dive into the technical questions."
THANKS_PHRASE ==
    <<"T", "h", "a", "n", "k", "s", " ", "f", "o", "r", " ", "s", "h", "a", "r", "i", "n", "g", " ", "t", "h", "a", "t", " ", "b", "a", "c", "k", "g", "r", "o", "u", "n", "d", ".", " ", "N", "o", "w", ",", " ", "l", "e", "t", "'", "s", " ", "d", "i", "v", "e", " ", "i", "n", "t", "o", " ", "t", "h", "e", " ", "t", "e", "c", "h", "n", "i", "c", "a", "l", " ", "q", "u", "e", "s", "t", "i", "o", "n", "s", ".">>

\* "Let's move on to the next question."
MOVE_ON_PHRASE ==
    <<"L", "e", "t", "'", "s", " ", "m", "o", "v", "e", " ", "o", "n", " ", "t", "o", " ", "t", "h", "e", " ", "n", "e", "x", "t", " ", "q", "u", "e", "s", "t", "i", "o", "n", ".">>

\* what _generate_adaptive_feedback returns for an evaluation and a question,
\* with the backend answering b if it is called and random.choice picking
\* phrase; called tells whether the backend was called
AdaptiveFeedback(ev, question, b, phrase) ==
    LET score == IF "score" \in DOMAIN ev THEN ev.score ELSE 0
        ideal_answer == CallGeminiApi(b).text
        \* 'Sorry, I encountered an error'
        error_mark ==
            <<"S", "o", "r", "r", "y", ",", " ", "I", " ", "e", "n", "c", "o", "u", "n", "t", "e", "r", "e", "d", " ", "a", "n", " ", "e", "r", "r", "o", "r">>
        \* "Okay, thanks for the answer. For future reference, here's a way you
        \* could approach that: "
        tip_head ==
            <<"O", "k", "a", "y", ",", " ", "t", "h", "a", "n", "k", "s", " ", "f", "o", "r", " ", "t", "h", "e", " ", "a", "n", "s", "w", "e", "r", ".", " ", "F", "o", "r", " ", "f", "u", "t", "u", "r", "e", " ", "r", "e", "f", "e", "r", "e", "n", "c", "e", ",", " ", "h", "e", "r", "e", "'", "s", " ", "a", " ", "w", "a", "y", " ", "y", "o", "u", " ", "c", "o", "u", "l", "d", " ", "a", "p", "p", "r", "o", "a", "c", "h", " ", "t", "h", "a", "t", ":", " ">>
    IN  IF score >= 8
        THEN [text |-> phrase, called |-> FALSE]
        ELSE IF Contains(Lower(question), TELL_ME_PHRASE)
        THEN [text |-> THANKS_PHRASE, called |-> FALSE]
        ELSE IF Contains(ideal_answer, error_mark)
        THEN [text |-> MOVE_ON_PHRASE, called |-> TRUE]
        ELSE [text |-> tip_head \o ideal_answer, called |-> TRUE]

GenerateAdaptiveFeedback_adapts(ev, question, b, phrase) ==
    LET f == AdaptiveFeedback(ev, question, b, phrase)
    IN  /\ last_op' = "_generate_adaptive_feedback"
        /\ ret' = [text |-> f.text]
        /\ raised' = FALSE
        /\ backend_failed' = (f.called /\ b.fails)
        /\ prompts' = IF f.called THEN <<"learning">> ELSE <<>>
        /\ interview_state' =
               [interview_state EXCEPT !.difficulty_level =
                   IF f.called THEN DIFF_EASY ELSE @]
        /\ UNCHANGED <<interview_data, calls, parseVars, apiVars, threadVars>>

\* _generate_adaptive_feedback(evaluation, question)
GenerateAdaptiveFeedback(ev, question, b, phrase) ==
    LET f == AdaptiveFeedback(ev, question, b, phrase)
    IN  /\ last_op' = "_generate_adaptive_feedback"
        /\ ret' = [text |-> f.text]
        /\ raised' = FALSE
        /\ backend_failed' = (f.called /\ b.fails)
        /\ prompts' = IF f.called THEN <<"learning">> ELSE <<>>
        /\ UNCHANGED <<interview_state, interview_data, calls, parseVars, apiVars,
                       threadVars>>

\* what chance decides in one call of _generate_adaptive_feedback: the
\* backend's answer if it is called and the phrase random.choice picks if it
\* is not
FeedbackChances ==
    {[backend |-> b, phrase |-> p] : b \in BackendOutcomes, p \in PraisePhrases}

\* the dialogue loop's feedback on the turn it has just recorded
FeedbackOnLastTurn(b, phrase) ==
    LET answers == interview_data.answers_received
    IN  /\ answers # <<>>
        /\ "evaluation" \in DOMAIN answers[Len(answers)]
        /\ GenerateAdaptiveFeedback(answers[Len(answers)].evaluation,
                                    answers[Len(answers)].question, b, phrase)
        /\ UNCHANGED loopVars

\* the dict get_interview_summary returns for a session
SummaryRecord(st, data) ==
    [candidate_name |-> st.candidate_name,
     job_role |-> st.job_role,
     duration |-> IF data.start_time # None THEN "elapsed" ELSE "N/A",
     overall_rating |-> IF data.overall_rating = NoRating
                        THEN [num |-> 0, den |-> 1]
                        ELSE data.overall_rating,
     questions_and_answers |-> data.answers_received,
     skills_assessed |-> st.skills_to_assess]

GetInterviewSummary_setdefault ==
    LET rating == IF interview_data.overall_rating = NoRating
                  THEN [num |-> 0, den |-> 1]
                  ELSE interview_data.overall_rating
    IN  /\ last_op' = "get_interview_summary"
        /\ interview_data' = [interview_data EXCEPT !.overall_rating = rating]
        /\ ret' = [candidate_name |-> interview_state.candidate_name,
                   job_role |-> interview_state.job_role,
                   duration |-> IF interview_data.start_time # None THEN "elapsed" ELSE "N/A",
                   overall_rating |-> rating,
                   questions_and_answers |-> interview_data.answers_received,
                   skills_assessed |-> interview_state.skills_to_assess]
        /\ raised' = FALSE
        /\ backend_failed' = FALSE
        /\ prompts' = <<>>
        /\ UNCHANGED <<interview_state, calls, parseVars, apiVars, threadVars, loopVars>>

\* get_interview_summary()
GetInterviewSummary ==
    /\ last_op' = "get_interview_summary"
    /\ ret' = SummaryRecord(interview_state, interview_data)
    /\ raised' = FALSE
    /\ backend_failed' = FALSE
    /\ prompts' = <<>>
    /\ UNCHANGED <<interview_state, interview_data, calls, parseVars, apiVars, threadVars, loopVars>>

\* the question/answer pairs a caller passes in: the opening question with an
\* answer, and a generated question the candidate chose not to answer
Exchanges ==
    {[question |-> IntroQuestion(InitialInterviewState), answer |-> ANSWER_TEXT],
     [question |-> Strip(TEXT_QUESTION), answer |-> <<>>]}

Next ==
    \/ \E p \in Profiles, b \in BackendOutcomes : Initialize(p, b)
    \/ \E b \in BackendOutcomes : GenerateNextQuestion(b)
    \/ \E x \in Exchanges, b \in BackendOutcomes : EvaluateAnswer(x.question, x.answer, b)
    \/ \E x \in Exchanges, b \in BackendOutcomes : RecordTurn(x.question, x.answer, b)
    \/ \E b \in BackendOutcomes : GenerateConclusion(b)
    \/ GetInterviewSummary

Spec == Init /\ [][Next]_vars

\* ------------------------------------------------------------------------
\* _parse_feedback on its own: one backend response, parsed once
\* ------------------------------------------------------------------------
InitParse ==
    /\ interview_state = InitialInterviewState
    /\ interview_data = InitialInterviewData
    /\ calls = 0
    /\ last_op = "__init__"
    /\ ret = NoReturn
    /\ raised = FALSE
    /\ backend_failed = FALSE
    /\ prompts = <<>>
    /\ feedback \in FeedbackTexts
    /\ evaluation = DefaultEvaluation
    /\ pf_raised = FALSE
    /\ pf_done = FALSE
    /\ ServerIdle
    /\ ThreadsIdle
    /\ MainNotRunning

\* evaluation = self._parse_feedback(feedback)
ParseFeedbackCall ==
    /\ ~pf_done
    /\ LET r == ParseFeedback(feedback)
       IN  /\ evaluation' = r.evaluation
           /\ pf_raised' = r.raised
    /\ pf_done' = TRUE
    /\ UNCHANGED <<feedback, sessionVars, apiVars, threadVars, loopVars>>

NextParse == ParseFeedbackCall

SpecParse == InitParse /\ [][NextParse]_vars

\* ------------------------------------------------------------------------
\* initialize_adaptive_interview over many experience descriptors
\* ------------------------------------------------------------------------
\* words of one experience descriptor
MaxWords == 2

\* 'FRESHER'
WORD_FRESHER == <<"F", "R", "E", "S", "H", "E", "R">>

\* 'Junior'
WORD_JUNIOR == <<"J", "u", "n", "i", "o", "r">>

\* 'mid-Level'
WORD_MID_LEVEL == <<"m", "i", "d", "-", "L", "e", "v", "e", "l">>

\* 'SENIOR'
WORD_SENIOR == <<"S", "E", "N", "I", "O", "R">>

\* 'Lead'
WORD_LEAD == <<"L", "e", "a", "d">>

\* 'Mid Level'
WORD_MID_LEVEL_SPACED == <<"M", "i", "d", " ", "L", "e", "v", "e", "l">>

\* ' / '
WORD_SEPARATOR == <<" ", "/", " ">>

\* 'Expert/Architectural'
SPEC_EXPERT == <<"E", "x", "p", "e", "r", "t", "/", "A", "r", "c", "h", "i", "t", "e", "c", "t", "u", "r", "a", "l">>

ExperienceWords ==
    {WORD_FRESHER, WORD_JUNIOR, WORD_MID_LEVEL, WORD_SENIOR, WORD_LEAD,
     WORD_MID_LEVEL_SPACED, WORD_SEPARATOR}

RECURSIVE Descriptors(_)
\* the descriptors made of at most n words
Descriptors(n) ==
    IF n = 0 THEN {<<>>}
    ELSE LET shorter == Descriptors(n - 1)
         IN  shorter \cup {d \o w : d \in shorter, w \in ExperienceWords}

ExperienceDescriptors ==
    Descriptors(MaxWords) \cup {EXP_FRESHER, EXP_JUNIOR, EXP_MID_LEVEL, EXP_SENIOR, EXP_LEAD}

WideProfiles ==
    {[name |-> "Asha", experience |-> e, skills |-> <<"React.js", "Redux">>] :
        e \in ExperienceDescriptors}

\* the first initialization of a new agent
NextDifficulty ==
    /\ interview_state.candidate_name = None
    /\ \E p \in WideProfiles, b \in BackendOutcomes : Initialize(p, b)

SpecDifficulty == Init /\ [][NextDifficulty]_vars

\* ------------------------------------------------------------------------
\* _generate_conclusion and get_interview_summary over recorded transcripts
\* ------------------------------------------------------------------------
\* turns of a transcript
MaxScored == 3

\* scores a backend response can give a turn
ScoreSet == {0, 6, 8, 10}

\* the question that opens a transcript: the fixed opening question, or a
\* question text that holds the phrase 'tell me about yourself'
OpeningQuestions == {IntroQuestion(InitialInterviewState), QUESTION_TELL_ME}

\* a turn as the dialogue loop leaves it, with its evaluation attached
ScoredTurn(question, score) ==
    [question |-> question, answer |-> ANSWER_TEXT, timestamp |-> Now,
     evaluation |-> [DefaultEvaluation EXCEPT !.score = score]]

RECURSIVE Transcripts(_)
\* the transcripts of at most n turns
Transcripts(n) ==
    IF n = 0 THEN {<<>>}
    ELSE LET shorter == Transcripts(n - 1)
         IN  shorter \cup
             {Append(tr, ScoredTurn(q, sc)) :
                 tr \in {x \in shorter : Len(x) = n - 1},
                 q \in IF n = 1 THEN OpeningQuestions ELSE {Strip(TEXT_QUESTION)},
                 sc \in ScoreSet}

\* a session that was initialized and has asked and recorded some turns
InitRating ==
    /\ \E tr \in Transcripts(MaxScored), p \in Profiles :
          /\ interview_state =
                [InitializeState(InitialInterviewState, p).state
                    EXCEPT !.question_count = Len(tr)]
          /\ interview_data =
                [InitialInterviewData EXCEPT !.start_time = Now, !.answers_received = tr]
          /\ calls = Len(tr)
    /\ last_op = "record_turn"
    /\ ret = NoReturn
    /\ raised = FALSE
    /\ backend_failed = FALSE
    /\ prompts = <<>>
    /\ feedback = <<>>
    /\ evaluation = DefaultEvaluation
    /\ pf_raised = FALSE
    /\ pf_done = FALSE
    /\ ServerIdle
    /\ ThreadsIdle
    /\ MainNotRunning

NextRating ==
    \/ \E b \in BackendOutcomes : GenerateConclusion(b)
    \/ GetInterviewSummary

SpecRating == InitRating /\ [][NextRating]_vars

\* ------------------------------------------------------------------------
\* _generate_adaptive_feedback over the last turn of recorded transcripts
\* ------------------------------------------------------------------------
NextFeedback ==
    \E o \in FeedbackChances : FeedbackOnLastTurn(o.backend, o.phrase)

SpecFeedback == InitRating /\ [][NextFeedback]_vars

\* ------------------------------------------------------------------------
\* The HTTP layer of interview_api.py: one global agent, requests served one
\* after the other
\* ------------------------------------------------------------------------
\* the interviews (browser sessions) that send requests
Clients == {1, 2}

\* /next-question requests served for one agent of the HTTP layer
MaxRequests == 2

NOT_STARTED == "Interview not started."

BODY_INCOMPLETE == "Request body must include 'question' and 'answer'."

DOMAIN_OR_PROFILE_MISSING == "Domain or profile missing."

ANSWER_RECEIVED == "Answer received."

\* the 'profile' values of a /start-interview body: a complete profile,
\* a profile that lacks a key, and the empty object
ApiProfiles ==
    {[name |-> "Asha", experience |-> EXP_SENIOR, skills |-> <<"React.js", "Redux">>],
     [name |-> "Ben", skills |-> <<"HTML">>],
     <<>>}

\* the JSON bodies of /start-interview; a key that is absent (or null) reads
\* as None through data.get
StartBodies ==
    {[domain_file |-> "frontend.json", profile |-> p] : p \in ApiProfiles}
    \cup {[domain_file |-> "missing.json", profile |-> p] :
              p \in {x \in ApiProfiles : DOMAIN x = {"name", "experience", "skills"}}}
    \cup {[profile |-> p] : p \in {x \in ApiProfiles : DOMAIN x = {"name", "experience", "skills"}}}

\* if not domain_filename or not candidate_profile
StartBodyIncomplete(data) ==
    \/ "domain_file" \notin DOMAIN data
    \/ data.domain_file = ""
    \/ "profile" \notin DOMAIN data
    \/ DOMAIN data.profile = {}

\* load_domain_config(domain_filename): it raises for a file it cannot load
DomainConfigLoads(domain_filename) == domain_filename = "frontend.json"

\* the backend outcomes tried in the HTTP layer
ApiBackendOutcomes ==
    {[fails |-> TRUE, text |-> <<>>], [fails |-> FALSE, text |-> TEXT_FEEDBACK]}

\* what the services behind /start-interview do: the HeyGen request that
\* fails, if any, and the backend's answer where the introduction is generated
StartOutcomes ==
    {[heygen |-> h, backend |-> [fails |-> TRUE, text |-> <<>>]] : h \in {"token", "new", "start"}}
    \cup {[heygen |-> h, backend |-> b] : h \in {"ok", "task"}, b \in ApiBackendOutcomes}

ErrorBody(message) == [status |-> "error", message |-> message]

\* POST /start-interview by client c with body data, the HeyGen requests
\* failing as h tells and the backend answering the introduction with b
StartInterviewWith(c, data, h, b) ==
    /\ request' = [endpoint |-> "/start-interview", client |-> c, data |-> data]
    /\ last_op' = "/start-interview"
    /\ raised' = FALSE
    /\ IF StartBodyIncomplete(data)
       THEN /\ http_status' = 400
            /\ ret' = ErrorBody(DOMAIN_OR_PROFILE_MISSING)
            /\ backend_failed' = FALSE
            /\ prompts' = <<>>
            /\ UNCHANGED <<interview_state, interview_data, calls, agent_owner,
                           heygen_session_id, heygen_session_token, in_progress>>
       ELSE IF h \in {"token", "new", "start"} \/ ~DomainConfigLoads(data.domain_file)
       THEN /\ http_status' = 500
            /\ ret' = ErrorBody(IF h \in {"token", "new", "start"}
                                THEN "HTTPError" ELSE "FileNotFoundError")
            /\ heygen_session_token' = IF h = "token" THEN heygen_session_token ELSE c
            /\ heygen_session_id' = IF h \in {"token", "new"} THEN heygen_session_id ELSE c
            /\ backend_failed' = FALSE
            /\ prompts' = <<>>
            /\ UNCHANGED <<interview_state, interview_data, calls, agent_owner, in_progress>>
       ELSE LET i == InitializeState(InitialInterviewState, data.profile)
                r == CallGeminiApi(b)
            IN  /\ heygen_session_token' = c
                /\ heygen_session_id' = c
                /\ agent_owner' = c
                /\ calls' = 0
                /\ interview_state' = i.state
                /\ IF i.raised
                   THEN /\ interview_data' = InitialInterviewData
                        /\ http_status' = 500
                        /\ ret' = ErrorBody("KeyError")
                        /\ backend_failed' = FALSE
                        /\ prompts' = <<>>
                        /\ in_progress' = in_progress \ {c}
                   ELSE /\ interview_data' = [InitialInterviewData EXCEPT !.start_time = Now]
                        /\ backend_failed' = b.fails
                        /\ prompts' = <<"introduction">>
                        /\ IF h = "task"
                           THEN /\ http_status' = 500
                                /\ ret' = ErrorBody("HTTPError")
                                /\ in_progress' = in_progress \ {c}
                           ELSE /\ http_status' = 200
                                /\ ret' = [status |-> "success", introduction |-> r.text]
                                /\ in_progress' = in_progress \cup {c}
    /\ UNCHANGED <<parseVars, threadVars, loopVars>>

StartInterview(c, data) ==
    IF StartBodyIncomplete(data)
    THEN StartInterviewWith(c, data, "ok", [fails |-> TRUE, text |-> <<>>])
    ELSE \E o \in StartOutcomes : StartInterviewWith(c, data, o.heygen, o.backend)

\* the answer of a handler that finds no agent
RejectNotStarted ==
    /\ http_status' = 400
    /\ ret' = [error |-> NOT_STARTED]
    /\ raised' = FALSE
    /\ backend_failed' = FALSE
    /\ prompts' = <<>>
    /\ UNCHANGED <<interview_state, interview_data, calls, agent_owner,
                   heygen_session_id, heygen_session_token, in_progress>>

\* GET /next-question by client c; what the avatar is told changes no state
NextQuestion(c, b) ==
    /\ request' = [endpoint |-> "/next-question", client |-> c]
    /\ last_op' = "/next-question"
    /\ IF agent_owner = 0
       THEN RejectNotStarted
       ELSE /\ calls < MaxRequests
            /\ calls' = calls + 1
            /\ IF IsComplete(interview_state) THEN GenerateComplete ELSE GenerateAsk(b)
            /\ http_status' = 200
            /\ UNCHANGED <<interview_data, agent_owner, heygen_session_id,
                           heygen_session_token, in_progress>>
    /\ UNCHANGED <<parseVars, threadVars, loopVars>>

\* the JSON bodies of /submit-answer: texts, empty strings, or a key left out
SubmitBodies ==
    {[question |-> Strip(TEXT_QUESTION), answer |-> ANSWER_TEXT],
     [question |-> <<>>, answer |-> <<>>],
     [question |-> Strip(TEXT_QUESTION)],
     [answer |-> ANSWER_TEXT]}

SubmitBodyIncomplete_falsy(data) ==
    \/ "answer" \notin DOMAIN data
    \/ "question" \notin DOMAIN data
    \/ data.answer = <<>>
    \/ data.question = <<>>

\* if answer is None or question is None
SubmitBodyIncomplete(data) ==
    "answer" \notin DOMAIN data \/ "question" \notin DOMAIN data

\* POST /submit-answer by client c with body data
SubmitAnswer(c, data, b) ==
    /\ request' = [endpoint |-> "/submit-answer", client |-> c, data |-> data]
    /\ last_op' = "/submit-answer"
    /\ IF agent_owner = 0
       THEN RejectNotStarted
       ELSE IF SubmitBodyIncomplete(data)
       THEN /\ http_status' = 400
            /\ ret' = [error |-> BODY_INCOMPLETE]
            /\ raised' = FALSE
            /\ backend_failed' = FALSE
            /\ prompts' = <<>>
            /\ UNCHANGED <<interview_state, interview_data, calls, agent_owner,
                           heygen_session_id, heygen_session_token, in_progress>>
       ELSE LET e == EvaluateAnswerResult(b)
            IN  /\ Len(interview_data.answers_received) < MaxTurns
                /\ interview_data' =
                       [interview_data EXCEPT !.answers_received =
                           Append(@, [question |-> data.question, answer |-> data.answer,
                                      evaluation |-> e.evaluation, timestamp |-> Now])]
                /\ http_status' = 200
                /\ ret' = [status |-> "success", message |-> ANSWER_RECEIVED]
                /\ raised' = e.raised
                /\ backend_failed' = b.fails
                /\ prompts' = <<"evaluation">>
                /\ UNCHANGED <<interview_state, calls, agent_owner, heygen_session_id,
                               heygen_session_token, in_progress>>
    /\ UNCHANGED <<parseVars, threadVars, loopVars>>

\* GET /conclude by client c: conclusion, summary, then the globals are reset
ConcludeInterview(c, b) ==
    /\ request' = [endpoint |-> "/conclude", client |-> c]
    /\ last_op' = "/conclude"
    /\ IF agent_owner = 0
       THEN RejectNotStarted
       ELSE LET overall_score == Mean(EvaluationScores(interview_data.answers_received))
                r == CallGeminiApi(b)
                concluded == [interview_data EXCEPT !.overall_rating = overall_score]
            IN  /\ ret' = [conclusion |-> [type |-> "conclusion", message |-> r.text,
                                           overall_score |-> overall_score],
                           summary |-> SummaryRecord(interview_state, concluded)]
                /\ http_status' = 200
                /\ raised' = r.raised
                /\ backend_failed' = b.fails
                /\ prompts' = <<"conclusion">>
                /\ agent_owner' = 0
                /\ heygen_session_id' = 0
                /\ heygen_session_token' = 0
                /\ interview_state' = InitialInterviewState
                /\ interview_data' = InitialInterviewData
                /\ calls' = 0
                /\ in_progress' = in_progress \ {c}
    /\ UNCHANGED <<parseVars, threadVars, loopVars>>

NextApi ==
    \/ \E c \in Clients, data \in StartBodies : StartInterview(c, data)
    \/ \E c \in Clients, b \in ApiBackendOutcomes : NextQuestion(c, b)
    \/ \E c \in Clients, data \in SubmitBodies, b \in ApiBackendOutcomes : SubmitAnswer(c, data, b)
    \/ \E c \in Clients, b \in ApiBackendOutcomes : ConcludeInterview(c, b)

SpecApi == Init /\ [][NextApi]_vars

\* ------------------------------------------------------------------------
\* /next-question served by the worker threads of the development server
\* (app.run serves each request in a thread of its own) against the one agent
\* ------------------------------------------------------------------------
\* the server after a /start-interview of client 1 that succeeded
InitConcurrent ==
    /\ \E p \in Profiles :
          /\ interview_state = InitializeState(InitialInterviewState, p).state
          /\ request = [endpoint |-> "/start-interview", client |-> 1,
                        data |-> [domain_file |-> "frontend.json", profile |-> p]]
    /\ interview_data = [InitialInterviewData EXCEPT !.start_time = Now]
    /\ calls = 0
    /\ last_op = "/start-interview"
    /\ ret = [status |-> "success", introduction |-> Strip(TEXT_FEEDBACK)]
    /\ raised = FALSE
    /\ backend_failed = FALSE
    /\ prompts = <<"introduction">>
    /\ feedback = <<>>
    /\ evaluation = DefaultEvaluation
    /\ pf_raised = FALSE
    /\ pf_done = FALSE
    /\ agent_owner = 1
    /\ heygen_session_id = 1
    /\ heygen_session_token = 1
    /\ http_status = 200
    /\ in_progress = {1}
    /\ ThreadsIdle
    /\ MainNotRunning

\* thread t enters generate_next_question: the completion test, then the
\* choice of the question type; the opening question needs no backend call
NQEnter(t) ==
    /\ pc[t] = "idle"
    /\ last_op' = "/next-question"
    /\ IF IsComplete(interview_state)
       THEN /\ ret' = ConclusionMarker
            /\ UNCHANGED threadVars
       ELSE LET question_type == QuestionType(interview_state.question_count)
            IN  /\ local' = [local EXCEPT ![t] =
                       [question_type |-> question_type,
                        question |-> IF question_type = "introduction"
                                     THEN IntroQuestion(interview_state) ELSE <<>>,
                        question_count |-> 0]]
                /\ pc' = [pc EXCEPT ![t] =
                       IF question_type = "introduction" THEN "load" ELSE "calling"]
                /\ UNCHANGED ret
    /\ UNCHANGED <<interview_state, interview_data, calls, raised, backend_failed,
                   prompts, parseVars, apiVars, loopVars>>

\* the backend call of thread t returns
NQCall(t, b) ==
    /\ pc[t] = "calling"
    /\ local' = [local EXCEPT ![t].question = CallGeminiApi(b).text]
    /\ pc' = [pc EXCEPT ![t] = "load"]
    /\ backend_failed' = b.fails
    /\ prompts' = <<local[t].question_type>>
    /\ UNCHANGED <<interview_state, interview_data, calls, last_op, ret, raised,
                   parseVars, apiVars, loopVars>>

\* question_count += 1, first half: thread t reads the counter
NQLoad(t) ==
    /\ pc[t] = "load"
    /\ local' = [local EXCEPT ![t].question_count = interview_state.question_count]
    /\ pc' = [pc EXCEPT ![t] = "store"]
    /\ UNCHANGED <<sessionVars, parseVars, apiVars, loopVars>>

\* question_count += 1, second half: thread t writes the counter and returns
NQStore(t) ==
    /\ pc[t] = "store"
    /\ interview_state' =
           [interview_state EXCEPT !.question_count = local[t].question_count + 1]
    /\ ret' = [question |-> local[t].question, type |-> local[t].question_type,
               question_number |-> interview_state'.question_count,
               total_questions |-> interview_state.max_questions]
    /\ pc' = [pc EXCEPT ![t] = "idle"]
    /\ local' = [local EXCEPT ![t] = IdleThread]
    /\ UNCHANGED <<interview_data, calls, last_op, raised, backend_failed, prompts,
                   parseVars, apiVars, loopVars>>

NextConcurrent ==
    \/ \E t \in Threads : NQEnter(t)
    \/ \E t \in Threads, b \in ApiBackendOutcomes : NQCall(t, b)
    \/ \E t \in Threads : NQLoad(t)
    \/ \E t \in Threads : NQStore(t)

SpecConcurrent == InitConcurrent /\ [][NextConcurrent]_vars

\* ------------------------------------------------------------------------
\* The __main__ program: the voice dialogue loop over one agent
\* ------------------------------------------------------------------------
\* ["repeat", "pardon", "say that again", "didn't hear", "didn't listen"]
repeat_keywords ==
    {<<"r", "e", "p", "e", "a", "t">>,
     <<"p", "a", "r", "d", "o", "n">>,
     <<"s", "a", "y", " ", "t", "h", "a", "t", " ", "a", "g", "a", "i", "n">>,
     <<"d", "i", "d", "n", "'", "t", " ", "h", "e", "a", "r">>,
     <<"d", "i", "d", "n", "'", "t", " ", "l", "i", "s", "t", "e", "n">>}

IsRepeatRequest_casesensitive(user_answer) ==
    \E keyword \in repeat_keywords : Contains(user_answer, keyword)

\* any(keyword in user_answer.lower() for keyword in repeat_keywords)
IsRepeatRequest(user_answer) ==
    \E keyword \in repeat_keywords : Contains(Lower(user_answer), keyword)

\* what listen() returns: an answer, or a request to hear the question again
\* ('Pardon? I missed that.')
Utterances ==
    {ANSWER_TEXT,
     <<"P", "a", "r", "d", "o", "n", "?", " ", "I", " ", "m", "i", "s", "s", "e", "d", " ", "t", "h", "a", "t", ".">>}

\* what the backend does when the loop asks it for a question: raise, answer
\* a question, or answer white space only
QuestionOutcomes ==
    {[fails |-> TRUE, text |-> <<>>],
     [fails |-> FALSE, text |-> TEXT_QUESTION],
     [fails |-> FALSE, text |-> <<" ", " ", "\n">>]}

\* what the backend does when the loop asks it for an evaluation
EvaluationOutcomes ==
    {[fails |-> TRUE, text |-> <<>>], [fails |-> FALSE, text |-> LINE_SCORE_15]}

\* the program before agent.initialize_adaptive_interview
MainStart ==
    [stage |-> "initialize", question_data |-> NoReturn, user_answer |-> <<>>,
     evaluation |-> DefaultEvaluation, spoken |-> <<>>, conclusions |-> 0]

InitDialogue ==
    /\ interview_state = InitialInterviewState
    /\ interview_data = InitialInterviewData
    /\ calls = 0
    /\ last_op = "__init__"
    /\ ret = NoReturn
    /\ raised = FALSE
    /\ backend_failed = FALSE
    /\ prompts = <<>>
    /\ feedback = <<>>
    /\ evaluation = DefaultEvaluation
    /\ pf_raised = FALSE
    /\ pf_done = FALSE
    /\ ServerIdle
    /\ ThreadsIdle
    /\ main = MainStart

\* intro = agent.initialize_adaptive_interview(candidate_profile); agent.speak(intro)
MainInitialize(candidate_profile, b) ==
    LET i == InitializeState(interview_state, candidate_profile)
        r == CallGeminiApi(b)
    IN  /\ main.stage = "initialize"
        /\ interview_state' = i.state
        /\ interview_data' = [interview_data EXCEPT !.start_time = Now]
        /\ last_op' = "initialize_adaptive_interview"
        /\ ret' = [text |-> r.text]
        /\ raised' = FALSE
        /\ backend_failed' = b.fails
        /\ prompts' = <<"introduction">>
        /\ main' = [main EXCEPT !.stage = "while", !.spoken = r.text]
        /\ UNCHANGED <<calls, parseVars, apiVars, threadVars>>

\* the while test, generate_next_question, the break test and the speaking of
\* the question
MainNextQuestion(b) ==
    /\ main.stage = "while"
    /\ IF interview_state.question_count < interview_state.max_questions
       THEN /\ GenerateAsk(b)
            /\ last_op' = "generate_next_question"
            /\ calls' = calls + 1
            /\ IF ret'.question = <<>> \/ ret'.type = "conclusion"
               THEN main' = [main EXCEPT !.stage = "conclude", !.question_data = ret']
               ELSE main' = [main EXCEPT !.stage = "listen", !.question_data = ret',
                                         !.spoken = ret'.question]
       ELSE /\ main' = [main EXCEPT !.stage = "conclude"]
            /\ UNCHANGED <<interview_state, calls, last_op, ret, raised, backend_failed,
                           prompts>>
    /\ UNCHANGED <<interview_data, parseVars, apiVars, threadVars>>

\* user_answer = agent.listen() and the test for a request to repeat: the
\* question is spoken again and the capture restarts, or the inner loop ends
MainListen(utterance) ==
    /\ main.stage = "listen"
    /\ IF IsRepeatRequest(utterance)
       THEN main' = [main EXCEPT !.user_answer = utterance,
                                 !.spoken = main.question_data.question]
       ELSE main' = [main EXCEPT !.user_answer = utterance, !.stage = "record"]
    /\ UNCHANGED <<sessionVars, parseVars, apiVars, threadVars>>

\* answers_received.append({question, answer, timestamp})
MainRecord ==
    /\ main.stage = "record"
    /\ interview_data' =
           [interview_data EXCEPT !.answers_received =
               Append(@, [question |-> main.question_data.question,
                          answer |-> main.user_answer, timestamp |-> Now])]
    /\ main' = [main EXCEPT !.stage = "evaluate"]
    /\ UNCHANGED <<interview_state, calls, last_op, ret, raised, backend_failed, prompts,
                   parseVars, apiVars, threadVars>>

\* evaluation = agent.evaluate_answer(...); answers_received[-1]['evaluation'] = evaluation
MainEvaluate(b) ==
    LET e == EvaluateAnswerResult(b)
        answers == interview_data.answers_received
    IN  /\ main.stage = "evaluate"
        /\ interview_data' =
               [interview_data EXCEPT !.answers_received =
                   [answers EXCEPT ![Len(answers)] =
                       [question |-> @.question, answer |-> @.answer,
                        timestamp |-> @.timestamp, evaluation |-> e.evaluation]]]
        /\ last_op' = "evaluate_answer"
        /\ ret' = e.evaluation
        /\ raised' = FALSE
        /\ backend_failed' = b.fails
        /\ prompts' = <<"evaluation">>
        /\ main' = [main EXCEPT !.stage = "feedback", !.evaluation = e.evaluation]
        /\ UNCHANGED <<interview_state, calls, parseVars, apiVars, threadVars>>

\* spoken_feedback = agent._generate_adaptive_feedback(...); agent.speak(spoken_feedback)
MainFeedback(b, phrase) ==
    /\ main.stage = "feedback"
    /\ GenerateAdaptiveFeedback(main.evaluation, main.question_data.question, b, phrase)
    /\ main' = [main EXCEPT !.stage = "while", !.spoken = ret'.text]

\* conclusion_data = agent._generate_conclusion(); agent.speak(...)
MainConclude(b) ==
    LET overall_score == Mean(EvaluationScores(interview_data.answers_received))
        r == CallGeminiApi(b)
    IN  /\ main.stage = "conclude"
        /\ interview_data' = [interview_data EXCEPT !.overall_rating = overall_score]
        /\ last_op' = "_generate_conclusion"
        /\ ret' = [type |-> "conclusion", message |-> r.text,
                   overall_score |-> overall_score]
        /\ raised' = FALSE
        /\ backend_failed' = b.fails
        /\ prompts' = <<"conclusion">>
        /\ main' = [main EXCEPT !.stage = "summary", !.spoken = r.text,
                                !.conclusions = @ + 1]
        /\ UNCHANGED <<interview_state, calls, parseVars, apiVars, threadVars>>

\* summary = agent.get_interview_summary(), printed; the program ends
MainSummary ==
    /\ main.stage = "summary"
    /\ last_op' = "get_interview_summary"
    /\ ret' = SummaryRecord(interview_state, interview_data)
    /\ raised' = FALSE
    /\ backend_failed' = FALSE
    /\ prompts' = <<>>
    /\ main' = [main EXCEPT !.stage = "done"]
    /\ UNCHANGED <<interview_state, interview_data, calls, parseVars, apiVars, threadVars>>

NextDialogue ==
    \/ \E p \in Profiles, b \in EvaluationOutcomes : MainInitialize(p, b)
    \/ \E b \in QuestionOutcomes : MainNextQuestion(b)
    \/ \E utterance \in Utterances : MainListen(utterance)
    \/ MainRecord
    \/ \E b \in EvaluationOutcomes : MainEvaluate(b)
    \/ \E o \in FeedbackChances : MainFeedback(o.backend, o.phrase)
    \/ \E b \in EvaluationOutcomes : MainConclude(b)
    \/ MainSummary

SpecDialogue == InitDialogue /\ [][NextDialogue]_vars

\* the program takes its steps, and a capture eventually returns an utterance
\* that is not a request to repeat
DialogueFairness ==
    /\ WF_vars(\E p \in Profiles, b \in EvaluationOutcomes : MainInitialize(p, b))
    /\ WF_vars(\E b \in QuestionOutcomes : MainNextQuestion(b))
    /\ WF_vars(\E utterance \in Utterances :
                  ~IsRepeatRequest(utterance) /\ MainListen(utterance))
    /\ WF_vars(MainRecord)
    /\ WF_vars(\E b \in EvaluationOutcomes : MainEvaluate(b))
    /\ WF_vars(\E o \in FeedbackChances : MainFeedback(o.backend, o.phrase))
    /\ WF_vars(\E b \in EvaluationOutcomes : MainConclude(b))
    /\ WF_vars(MainSummary)

SpecDialogueFair == SpecDialogue /\ DialogueFairness

\* ========================================================================
\* Properties
\* ========================================================================
Min(a, b) == IF a <= b THEN a ELSE b

\* C1: after N calls of generate_next_question on a new session,
\* question_count is min(N, max_questions); no call takes it past
\* max_questions.
C1_CountIsMinOfCalls ==
    interview_state.question_count = Min(calls, interview_state.max_questions)

C1_Witness ==
    /\ calls > interview_state.max_questions
    /\ interview_state.question_count = interview_state.max_questions

\* C2: in every reachable state, whatever the order of the operations,
\* question_count is at most max_questions.
C2_CountAtMostMax ==
    interview_state.question_count <= interview_state.max_questions

C2_Witness ==
    /\ interview_state.question_count = interview_state.max_questions
    /\ last_op = "record_turn"
    /\ interview_data.overall_rating # NoRating
    /\ interview_state.candidate_name # None

\* the type the specification gives to the question at a position
ClaimedType(question_count, max_questions) ==
    IF question_count = 0 THEN "introduction"
    ELSE IF question_count = 3 \/ (max_questions > 7 /\ question_count = 7) THEN "behavioral"
    ELSE "technical"

\* C3: the type of the question a call of generate_next_question produces is
\* fixed by question_count before the call: introduction at 0, behavioral at
\* 3 (and at 7 when max_questions > 7), technical at every other position
\* below max_questions.
C3_TypeByPosition ==
    [][(calls' = calls + 1
        /\ interview_state.question_count < interview_state.max_questions)
       => /\ "question" \in DOMAIN ret'
          /\ ret'.type = ClaimedType(interview_state.question_count,
                                     interview_state.max_questions)]_vars

C3_Witness ==
    /\ last_op = "generate_next_question"
    /\ "question" \in DOMAIN ret
    /\ ret.type = "behavioral"
    /\ ret.question_number = 4

\* C4: once question_count >= max_questions, every further call of
\* generate_next_question returns the conclusion marker, without a question
\* text, and changes nothing of the session.
C4_ConcludedIsIdempotent ==
    [][(calls' = calls + 1
        /\ interview_state.question_count >= interview_state.max_questions)
       => /\ interview_state' = interview_state
          /\ interview_data' = interview_data
          /\ "type" \in DOMAIN ret'
          /\ ret'.type = "conclusion"
          /\ "question" \notin DOMAIN ret']_vars

C4_Witness ==
    /\ calls >= interview_state.max_questions + 2
    /\ last_op = "generate_next_question"
    /\ ret = ConclusionMarker

\* s holds keyword kw, whatever the case of the letters of s
HoldsKeyword(s, kw) ==
    \E i \in 1..Len(s) :
        /\ i + Len(kw) - 1 <= Len(s)
        /\ \A k \in 1..Len(kw) : LowerChar(s[i + k - 1]) = kw[k]

\* the difficulty of a descriptor, with the label given for the last case
LevelByKeyword(experience, other) ==
    CASE HoldsKeyword(experience, KW_FRESHER) -> DIFF_EASY
      [] ~HoldsKeyword(experience, KW_FRESHER) /\ HoldsKeyword(experience, KW_JUNIOR) ->
            DIFF_EASY_MEDIUM
      [] /\ ~HoldsKeyword(experience, KW_FRESHER) /\ ~HoldsKeyword(experience, KW_JUNIOR)
         /\ HoldsKeyword(experience, KW_MID_LEVEL) -> DIFF_MEDIUM
      [] /\ ~HoldsKeyword(experience, KW_FRESHER) /\ ~HoldsKeyword(experience, KW_JUNIOR)
         /\ ~HoldsKeyword(experience, KW_MID_LEVEL)
         /\ HoldsKeyword(experience, KW_SENIOR) -> DIFF_HARD
      [] OTHER -> other

\* C5 as stated: initialize_adaptive_interview sets the difficulty by
\* case-insensitive keyword (fresher -> Easy, junior -> Easy-to-Medium,
\* mid-level -> Medium, senior -> Hard) and gives every other descriptor the
\* label 'Expert/Architectural'.
C5_DifficultyAsStated ==
    last_op = "initialize_adaptive_interview"
    => interview_state.difficulty_level =
          LevelByKeyword(interview_state.experience_text, SPEC_EXPERT)

\* C5, amended: the same mapping, the keywords tried in the order fresher,
\* junior, mid-level, senior, and every other descriptor given the label
\* 'Expert / Architectural', with a space on each side of the slash.
C5_DifficultyByKeyword ==
    last_op = "initialize_adaptive_interview"
    => interview_state.difficulty_level =
          LevelByKeyword(interview_state.experience_text, DIFF_EXPERT)

C5_Witness ==
    /\ last_op = "initialize_adaptive_interview"
    /\ interview_state.experience_text = EXP_LEAD
    /\ interview_state.difficulty_level = DIFF_EXPERT

\* C6: a failure of the backend never leaves a core operation as an
\* exception: the operation returns its fixed fallback value, and
\* generate_next_question still counts the question.
C6_FailureIsAbsorbed ==
    [][/\ raised' = FALSE
       /\ backend_failed' =>
             /\ last_op' = "initialize_adaptive_interview" => ret' = [text |-> API_ERROR_TEXT]
             /\ last_op' = "generate_next_question" =>
                   /\ "question" \in DOMAIN ret'
                   /\ ret'.question = API_ERROR_TEXT
                   /\ interview_state'.question_count = interview_state.question_count + 1
             /\ last_op' \in {"evaluate_answer", "record_turn"} => ret' = DefaultEvaluation
             /\ last_op' = "_generate_conclusion" =>
                   /\ "message" \in DOMAIN ret'
                   /\ ret'.message = API_ERROR_TEXT]_vars

C6_Witness ==
    /\ backend_failed
    /\ last_op = "generate_next_question"
    /\ "question" \in DOMAIN ret
    /\ ret.question = API_ERROR_TEXT
    /\ interview_state.question_count = interview_state.max_questions

\* the lines of the response as _parse_feedback sees them
ResponseLines == Split(Strip(feedback), NEWLINE)

LinesWith(prefix) == {i \in 1..Len(ResponseLines) : StartsWith(ResponseLines[i], prefix)}

HasDigit(line) == \E i \in 1..Len(line) : IsDigit(line[i])

\* C7: _parse_feedback never raises, and a field that was not extracted keeps
\* its default: score 0 when no 'SCORE:' line holds a number (so also when
\* there is no 'SCORE:' line), 'N/A' when there is no 'STRENGTHS:' line or no
\* 'IMPROVEMENTS:' line.
C7_ParseFailsSoft ==
    pf_done =>
        /\ ~pf_raised
        /\ (\A i \in LinesWith(PREFIX_SCORE) : ~HasDigit(ResponseLines[i]))
              => evaluation.score = 0
        /\ LinesWith(PREFIX_STRENGTHS) = {} => evaluation.strengths = NOT_AVAILABLE
        /\ LinesWith(PREFIX_IMPROVEMENTS) = {} => evaluation.improvements = NOT_AVAILABLE

C7_Witness ==
    /\ pf_done
    /\ feedback = Join(<<LINE_STRENGTHS, LINE_SCORE_NODIGIT>>, NEWLINE)
    /\ evaluation = [score |-> 0, strengths |-> TEXT_CLEAR, improvements |-> NOT_AVAILABLE]

\* the lines of the response as the backend wrote them
RawLines == Split(feedback, NEWLINE)

IsFieldLine(line) ==
    \/ StartsWith(line, PREFIX_SCORE)
    \/ StartsWith(line, PREFIX_STRENGTHS)
    \/ StartsWith(line, PREFIX_IMPROVEMENTS)

\* one 'SCORE: 7', one 'STRENGTHS: Clear' and one 'IMPROVEMENTS: Depth' line,
\* in any order, every other line being none of the three fields
DocumentedTriple ==
    /\ \A l \in {LINE_SCORE_7, LINE_STRENGTHS, LINE_IMPROVEMENTS} :
          Cardinality({i \in 1..Len(RawLines) : RawLines[i] = l}) = 1
    /\ \A i \in 1..Len(RawLines) :
          IsFieldLine(RawLines[i])
             => RawLines[i] \in {LINE_SCORE_7, LINE_STRENGTHS, LINE_IMPROVEMENTS}

\* C8: a response made of the three well-formed lines, in any order and with
\* any other or blank lines around them, parses to the same record: score 7,
\* strengths 'Clear', improvements 'Depth'.
C8_OrderIndependent ==
    (pf_done /\ DocumentedTriple)
    => evaluation = [score |-> 7, strengths |-> TEXT_CLEAR, improvements |-> TEXT_DEPTH]

C8_Witness ==
    /\ pf_done
    /\ feedback = Join(<<LINE_IMPROVEMENTS, LINE_BLANK, LINE_STRENGTHS, LINE_SCORE_7>>, NEWLINE)
    /\ evaluation = [score |-> 7, strengths |-> TEXT_CLEAR, improvements |-> TEXT_DEPTH]

\* C9: when the one 'SCORE:' line of a response holds no digits, the score is
\* 0 and the 'STRENGTHS:' and 'IMPROVEMENTS:' lines of the response are still
\* extracted, wherever they stand.
C9_OtherFieldsSurvive ==
    (/\ pf_done
     /\ Cardinality(LinesWith(PREFIX_SCORE)) = 1
     /\ \A i \in LinesWith(PREFIX_SCORE) : ~HasDigit(ResponseLines[i]))
    => /\ evaluation.score = 0
       /\ LinesWith(PREFIX_STRENGTHS) # {} => evaluation.strengths = TEXT_CLEAR
       /\ LinesWith(PREFIX_IMPROVEMENTS) # {} => evaluation.improvements = TEXT_DEPTH

\* C10: every evaluation that evaluate_answer returns has a score in 0..10.
C10_ScoreInRange ==
    last_op \in {"evaluate_answer", "record_turn"} => ret.score \in 0..10

\* the scores of the recorded turns, in order
TurnScores ==
    [i \in 1..Len(interview_data.answers_received) |->
        interview_data.answers_received[i].evaluation.score]

RECURSIVE TotalUpTo(_, _)
TotalUpTo(scores, n) == IF n = 0 THEN 0 ELSE TotalUpTo(scores, n - 1) + scores[n]

\* rating r is the arithmetic mean of scores, 0 for no score
IsMeanOf(r, scores) ==
    IF scores = <<>> THEN r = [num |-> 0, den |-> 1]
    ELSE r.den > 0 /\ r.num * Len(scores) = TotalUpTo(scores, Len(scores)) * r.den

\* C11: _generate_conclusion returns the arithmetic mean of the scores of all
\* recorded turns, the opening question's included (0 without a turn), and
\* stores it as the rating get_interview_summary reports afterwards.
C11_RatingIsMean ==
    /\ last_op = "_generate_conclusion" =>
          /\ IsMeanOf(ret.overall_score, TurnScores)
          /\ interview_data.overall_rating = ret.overall_score
    /\ (last_op = "get_interview_summary" /\ interview_data.overall_rating # NoRating) =>
          /\ ret.overall_rating = interview_data.overall_rating
          /\ IsMeanOf(ret.overall_rating, TurnScores)

C11_Witness ==
    /\ last_op = "get_interview_summary"
    /\ TurnScores = <<6, 8, 10>>
    /\ interview_data.overall_rating = [num |-> 8, den |-> 1]
    /\ ret.overall_rating = [num |-> 8, den |-> 1]

\* C12: get_interview_summary only reads: it changes neither interview_state
\* nor interview_data, never raises, and while no conclusion has run it
\* reports rating 0, with an empty transcript when no turn was recorded and
\* the duration 'N/A' when the session was never started.
C12_SummaryOnlyReads ==
    [][last_op' = "get_interview_summary"
       => /\ interview_state' = interview_state
          /\ interview_data' = interview_data
          /\ raised' = FALSE
          /\ "overall_rating" \in DOMAIN ret'
          /\ interview_data.overall_rating = NoRating =>
                ret'.overall_rating = [num |-> 0, den |-> 1]
          /\ interview_data.answers_received = <<>> => ret'.questions_and_answers = <<>>
          /\ interview_data.start_time = None => ret'.duration = "N/A"]_vars

C12_Witness ==
    /\ last_op = "get_interview_summary"
    /\ interview_data = InitialInterviewData
    /\ calls > 0
    /\ ret.overall_rating = [num |-> 0, den |-> 1]
    /\ ret.questions_and_answers = <<>>
    /\ ret.duration = "N/A"

\* the transcript holds one turn, whose question holds the phrase
\* 'tell me about yourself' in any case
OnlyOpeningTurn ==
    /\ Len(interview_data.answers_received) = 1
    /\ HoldsKeyword(interview_data.answers_received[1].question, TELL_ME_PHRASE)

\* the texts _call_gemini_api can return
BackendMessages == {CallGeminiApi(b).text : b \in BackendOutcomes}

\* C13 as stated: concluding a session whose only turn is the opening
\* question returns a fixed empty-log message and calls the backend for no
\* feedback synthesis.
C13_EmptyLogShortCircuit ==
    (last_op = "_generate_conclusion" /\ OnlyOpeningTurn)
    => /\ prompts = <<>>
       /\ ret.message \notin BackendMessages

\* C13, amended: concluding a session whose only turn is the opening question
\* makes one backend call, the one for the closing statement, and returns the
\* text of the backend (the apology text when the call fails) as the message,
\* with the score of that turn as overall_score.
C13_ClosingCallOnly ==
    (last_op = "_generate_conclusion" /\ OnlyOpeningTurn)
    => /\ prompts = <<"conclusion">>
       /\ ret.type = "conclusion"
       /\ ret.message \in BackendMessages
       /\ backend_failed => ret.message = API_ERROR_TEXT
       /\ ret.overall_score = [num |-> TurnScores[1], den |-> 1]

C13_Witness ==
    /\ last_op = "_generate_conclusion"
    /\ OnlyOpeningTurn
    /\ prompts = <<"conclusion">>
    /\ ret.message = Strip(TEXT_QUESTION)
    /\ ret.overall_score = [num |-> 6, den |-> 1]

\* C14: max_questions is set when the session is created, to a value in
\* 5..10, and no operation changes it afterwards.
C14_MaxQuestionsFixed ==
    /\ [](interview_state.max_questions \in 5..10)
    /\ [][interview_state'.max_questions = interview_state.max_questions]_vars

C14_Witness ==
    /\ interview_state.max_questions = 5
    /\ interview_state.candidate_name # None
    /\ interview_state.question_count = interview_state.max_questions
    /\ interview_data.answers_received # <<>>
    /\ interview_data.overall_rating # NoRating
    /\ last_op = "get_interview_summary"

\* C20: every call of initialize_adaptive_interview leaves question_count at
\* 0, also on a session that has produced questions.
C20_InitializeResetsCount ==
    last_op = "initialize_adaptive_interview" => interview_state.question_count = 0

\* a /start-interview body the handler must refuse: the profile is absent or
\* empty, lacks name, experience or skills, or the domain config is missing
StartBodyInvalid(data) ==
    \/ "profile" \notin DOMAIN data
    \/ "domain_file" \notin DOMAIN data
    \/ DOMAIN data.profile # {"name", "experience", "skills"}
    \/ data.domain_file # "frontend.json"

\* C15: a /start-interview with a missing or invalid profile or a missing
\* domain config is answered with an error, and the step neither creates nor
\* changes a session: the agent, its state and its transcript stay as they were.
C15_FailedStartLeavesSession ==
    [][(request'.endpoint = "/start-interview" /\ StartBodyInvalid(request'.data))
          => /\ http_status' >= 400
             /\ UNCHANGED <<agent_owner, interview_state, interview_data>>]_vars

\* C16: a /submit-answer whose body lacks question or answer is answered 400
\* with the body-incomplete error, without a backend call and with the
\* transcript unchanged; a body holding both (empty strings included) is
\* answered 200, whether or not the backend failed, and its question and
\* answer are appended to the transcript as one evaluated turn.
C16_NullRejectedEmptyAccepted ==
    [][(request'.endpoint = "/submit-answer" /\ agent_owner # 0)
          => LET d == request'.data
                 before == interview_data.answers_received
                 after == interview_data'.answers_received
             IN  IF {"question", "answer"} \subseteq DOMAIN d
                 THEN /\ http_status' = 200
                      /\ ret'.status = "success"
                      /\ Len(after) = Len(before) + 1
                      /\ SubSeq(after, 1, Len(before)) = before
                      /\ after[Len(after)].question = d.question
                      /\ after[Len(after)].answer = d.answer
                      /\ "evaluation" \in DOMAIN after[Len(after)]
                 ELSE /\ http_status' = 400
                      /\ ret' = [error |-> BODY_INCOMPLETE]
                      /\ ~backend_failed'
                      /\ prompts' = <<>>
                      /\ interview_data' = interview_data]_vars

\* an incomplete body was refused while the transcript held the turn of an
\* accepted body of empty strings
C16_Witness ==
    /\ last_op = "/submit-answer"
    /\ http_status = 400
    /\ "answer" \notin DOMAIN request.data
    /\ Len(interview_data.answers_received) = 1
    /\ interview_data.answers_received[1].question = <<>>
    /\ interview_data.answers_received[1].answer = <<>>

\* C18: a /next-question, /submit-answer or /conclude request of an interview
\* that is in progress is served by the agent that this interview's own
\* /start-interview created, whatever other interviews were started meanwhile.
C18_OwnSessionServed ==
    [][(/\ request'.endpoint \in {"/next-question", "/submit-answer", "/conclude"}
        /\ request'.client \in in_progress)
          => agent_owner = request'.client]_vars

\* C19: the transcript never holds more turns than questions were produced,
\* and a request that keeps the agent only appends to the transcript.
C19_OneTurnPerQuestion ==
    /\ [](Len(interview_data.answers_received) <= interview_state.question_count)
    /\ [][last_op' \in {"/next-question", "/submit-answer"}
             => /\ Len(interview_data'.answers_received) >= Len(interview_data.answers_received)
                /\ SubSeq(interview_data'.answers_received, 1,
                          Len(interview_data.answers_received))
                      = interview_data.answers_received]_vars

\* C17: whatever the interleaving of the /next-question requests in flight,
\* the agent's question_count stays within max_questions.
C17_CountWithinMaxUnderThreads ==
    interview_state.question_count \in 0..interview_state.max_questions

\* C21: a call of evaluate_answer, whatever the question, the answer and the
\* backend's response, leaves question_count, max_questions, difficulty_level
\* and the transcript as they were.
C21_EvaluateLeavesSession ==
    [][last_op' = "evaluate_answer"
          => /\ interview_state'.question_count = interview_state.question_count
             /\ interview_state'.max_questions = interview_state.max_questions
             /\ interview_state'.difficulty_level = interview_state.difficulty_level
             /\ interview_data'.answers_received = interview_data.answers_received]_vars

\* an answer was evaluated against a failing backend in a session that had
\* produced a question and recorded a turn
C21_Witness ==
    /\ last_op = "evaluate_answer"
    /\ backend_failed
    /\ interview_state.question_count > 0
    /\ Len(interview_data.answers_received) = 1

\* the operations that run after the initialization
LaterOperations ==
    {"generate_next_question", "evaluate_answer", "_generate_adaptive_feedback",
     "_generate_conclusion", "get_interview_summary"}

\* C22: generate_next_question, evaluate_answer, _generate_adaptive_feedback,
\* _generate_conclusion and get_interview_summary leave difficulty_level,
\* experience_text and skills_to_assess as the initialization set them.
C22_DifficultyFixedAfterInit ==
    [][last_op' \in LaterOperations
          => /\ interview_state'.difficulty_level = interview_state.difficulty_level
             /\ interview_state'.experience_text = interview_state.experience_text
             /\ interview_state'.skills_to_assess = interview_state.skills_to_assess]_vars

\* feedback on a weak answer came from the backend, in the third round of an
\* interview whose difficulty_level the initialization had computed
C22_Witness ==
    /\ last_op = "_generate_adaptive_feedback"
    /\ prompts = <<"learning">>
    /\ interview_state.question_count = 3
    /\ interview_state.difficulty_level \in {DIFF_HARD, DIFF_EXPERT}
    /\ interview_state.experience_text # <<>>

\* the utterance holds one of the keywords that ask for the question again
AsksToRepeat(utterance) ==
    \E keyword \in repeat_keywords : Contains(Lower(utterance), keyword)

\* C23: a question is emitted only when every question asked before has its
\* turn recorded, and a captured utterance that asks to repeat leaves the loop
\* listening with the same question spoken again, question_count and the
\* transcript unchanged.
C23_StrictlySequentialDialogue ==
    /\ [][(main.stage = "while" /\ main'.stage = "listen")
             => /\ Len(interview_data.answers_received) = interview_state.question_count
                /\ \A i \in DOMAIN interview_data.answers_received :
                      "evaluation" \in DOMAIN interview_data.answers_received[i]
                /\ interview_state'.question_count = interview_state.question_count + 1
                /\ main'.spoken = main'.question_data.question]_vars
    /\ [][(main.stage = "listen" /\ AsksToRepeat(main'.user_answer))
             => /\ main'.stage = "listen"
                /\ main'.question_data = main.question_data
                /\ main'.spoken = main.question_data.question
                /\ interview_state' = interview_state
                /\ interview_data' = interview_data]_vars

\* the second question is out, the candidate asked to hear it again, and the
\* loop is listening with one turn recorded
C23_Witness ==
    /\ main.stage = "listen"
    /\ AsksToRepeat(main.user_answer)
    /\ main.spoken = main.question_data.question
    /\ interview_state.question_count = 2
    /\ Len(interview_data.answers_received) = 1

\* C24: while no interview is in progress (none was started with success since
\* the server came up or since the last /conclude), a /next-question,
\* /submit-answer or /conclude request is answered 400 'Interview not started.'
\* and changes nothing of a session.
C24_NoSessionRejects ==
    [][(/\ request'.endpoint \in {"/next-question", "/submit-answer", "/conclude"}
        /\ in_progress = {})
          => /\ http_status' = 400
             /\ ret' = [error |-> NOT_STARTED]
             /\ UNCHANGED <<agent_owner, interview_state, interview_data>>]_vars

\* C25: the dialogue program reaches its end, and at its end question_count is
\* max_questions, every question has its turn, and the conclusion was generated
\* once, after the last turn was recorded.
C25_ConcludesAfterAllQuestions ==
    /\ <>(main.stage = "done")
    /\ [](main.conclusions <= 1)
    /\ [](main.stage \in {"summary", "done"}
             => /\ main.conclusions = 1
                /\ interview_state.question_count = interview_state.max_questions
                /\ Len(interview_data.answers_received) = interview_state.max_questions)

\* the dialogue program reaches its end
DialogueTerminates == <>(main.stage = "done")

\* C26: _generate_adaptive_feedback does not raise and changes no session
\* state; it calls the backend only for a score below 8 on a question without
\* 'tell me about yourself'; a score of 8 or more gets a praise phrase, the
\* opening question the thanks phrase, a backend failure the move-on phrase.
C26_FeedbackBranches ==
    [][last_op' = "_generate_adaptive_feedback"
          => LET answers == interview_data.answers_received
                 question == answers[Len(answers)].question
                 score == answers[Len(answers)].evaluation.score
             IN  /\ ~raised'
                 /\ UNCHANGED <<interview_state, interview_data>>
                 /\ prompts' # <<>>
                       => (score < 8 /\ ~Contains(Lower(question), TELL_ME_PHRASE))
                 /\ score >= 8 => ret'.text \in PraisePhrases
                 /\ (score < 8 /\ question = IntroQuestion(interview_state))
                       => (ret'.text = THANKS_PHRASE /\ prompts' = <<>>)
                 /\ backend_failed' => ret'.text = MOVE_ON_PHRASE]_vars
====
